---- MODULE Spec2Model ----
(***************************************************************************)
(* Model of LedsSwitches_C-Lang.c: a bare-metal RISC-V program that sets   *)
(* the GPIO direction register once and then polls the switch register,   *)
(* shifts the value right by 16 and writes it to the LED register.         *)
(*                                                                         *)
(* A 32-bit unsigned register value is a record [hi, lo] of two 16-bit     *)
(* halfwords (its value is hi * 2^16 + lo); a C int is an integer in       *)
(* -2^31 .. 2^31-1.  The conversions between the two are modelled by what  *)
(* they do on the two's-complement bit pattern.                            *)
(***************************************************************************)
EXTENDS Integers, Sequences, FiniteSets, TLC

VARIABLES pc, gpio, En_Value, switches_value, sraSignFill,
          bus, lastOp, lastRead, trace,
          pcB, gpioB, En_ValueB, switches_valueB, busB, lastReadB

varsA == <<pc, gpio, En_Value, switches_value, sraSignFill, bus, lastOp, lastRead, trace>>

varsB == <<pcB, gpioB, En_ValueB, switches_valueB, busB, lastReadB>>

vars  == <<pc, gpio, En_Value, switches_value, sraSignFill, bus, lastOp, lastRead, trace,
           pcB, gpioB, En_ValueB, switches_valueB, busB, lastReadB>>

----------------------------------------------------------------------------
(* Bounds of the model *)

\* number of bus accesses recorded in the history variable trace
MaxTrace == 7

\* upper halfwords (bits 31..16) the switches can present:
\* 0x0000, 0x1234, 0x7FFF, 0x8000, 0xFFFF
HiVals == {0, 4660, 32767, 32768, 65535}

\* lower halfwords (bits 15..0) the switch register can present:
\* 0x0000, 0x5678, 0xFFFF
LoVals == {0, 22136, 65535}

----------------------------------------------------------------------------
(* Words and the C conversions *)

Half == 2^16

Word(h, l) == [hi |-> h, lo |-> l]

SwValues == {Word(h, l) : h \in HiVals, l \in LoVals}

\* values the LED and direction registers may hold at reset: 0x00000000, 0xFFFFFFFF
ResetValues == {Word(0, 0), Word(Half - 1, Half - 1)}

\* indeterminate value of the uninitialised local switches_value
UninitInts == {0, -1}

\* the memory-mapped registers, named by their addresses
GPIO_SWs == "0x80001400"

GPIO_LEDs == "0x80001404"

GPIO_INOUT == "0x80001408"

\* a variant of the initialiser that enables only bits 7..0: 0x00FF
En_Value_Short == 2^8 - 1

\* initialiser of En_Value: 0xFFFF
En_Value_Init == 65535

\* shift count of line 16
ShiftCount == 16

\* controlling expression of while (1)
LoopCond == 1

\* unsigned -> int, as in  switches_value = READ_GPIO(..) : the bit pattern
\* is kept (two's complement)
ToInt(w) == IF w.hi >= Half \div 2 THEN (w.hi - Half) * Half + w.lo
            ELSE w.hi * Half + w.lo

\* int -> unsigned, as in the store of an int through (volatile unsigned *):
\* the value modulo 2^32
ToUnsigned(i) == [hi |-> (i \div Half) % Half, lo |-> i % Half]

\* a variant of the shift that shifts by one position less
ShiftRightOneLess(i, n, signFill) ==
    IF i >= 0 \/ signFill THEN i \div (2^(n - 1))
    ELSE (i \div (2^(n - 1))) + 2^(32 - (n - 1))

\* a variant of the shift that shifts by half the count
ShiftRightHalfCount(i, n, signFill) ==
    IF i >= 0 \/ signFill THEN i \div (2^(n \div 2))
    ELSE (i \div (2^(n \div 2))) + 2^(32 - (n \div 2))

\* i >> n on an int.  For i >= 0 the result is i / 2^n.  For i < 0 the result
\* is implementation-defined: the build either copies the sign bit into the
\* vacated bits (signFill) or fills them with zeros.
ShiftRight(i, n, signFill) ==
    IF i >= 0 \/ signFill THEN i \div (2^n)
    ELSE (i \div (2^n)) + 2^(32 - n)

\* READ_GPIO(dir)
READ_GPIO(regs, dir) == regs[dir]

\* WRITE_GPIO(dir, value)
WRITE_GPIO(regs, dir, value) == [regs EXCEPT ![dir] = ToUnsigned(value)]

\* a bus access, and the absence of one
Access(o, dir, w) == [op |-> o, reg |-> dir, val |-> w]

NoAccess == [op |-> "-", reg |-> "-", val |-> Word(0, 0)]

\* history of the kind and register of the first MaxTrace bus accesses
Log(t, o, dir) == IF Len(t) < MaxTrace THEN Append(t, <<o, dir>>) ELSE t

\* a variant of the control flow in which the loop body jumps back to line 12
SuccBackToSetup(p) == CASE p = "l12" -> "l14"
                        [] p = "l15" -> "l16"
                        [] p = "l16" -> "l17"
                        [] p = "l17" -> "l12"

\* a variant of the control flow in which the read is hoisted out of the loop
SuccSkipRead(p) == CASE p = "l12" -> "l14"
                     [] p = "l15" -> "l16"
                     [] p = "l16" -> "l17"
                     [] p = "l17" -> "l16"

\* successor of a statement in the control flow of main
Succ(p) == CASE p = "l12" -> "l14"
             [] p = "l15" -> "l16"
             [] p = "l16" -> "l17"
             [] p = "l17" -> "l14"

\* a variant of the loop test with the condition inverted
WhileTargetInverted(c) == IF c = 0 THEN "l15" ELSE "l20"

\* line 14: while (1) enters the body when the condition is non-zero, else
\* control reaches line 20
WhileTarget(c) == IF c # 0 THEN "l15" ELSE "l20"

----------------------------------------------------------------------------
(* Initial state: the locals are declared, main is about to run line 12 *)

InitA ==
    /\ pc = "l12"
    /\ En_Value = En_Value_Init
    /\ switches_value \in UninitInts
    /\ sraSignFill \in BOOLEAN
    /\ \E s \in SwValues, l \in ResetValues, d \in ResetValues :
          gpio = (GPIO_SWs :> s) @@ (GPIO_LEDs :> l) @@ (GPIO_INOUT :> d)
    /\ bus = NoAccess
    /\ lastOp = "none"
    /\ lastRead = Word(0, 0)
    /\ trace = << >>

\* a single run: the second run is not started
Init ==
    /\ InitA
    /\ pcB = "l12"
    /\ gpioB = [r \in {GPIO_SWs, GPIO_LEDs, GPIO_INOUT} |-> Word(0, 0)]
    /\ En_ValueB = En_Value_Init
    /\ switches_valueB = 0
    /\ busB = NoAccess
    /\ lastReadB = Word(0, 0)

----------------------------------------------------------------------------
(* The statements of main *)

\* line 12: WRITE_GPIO(GPIO_INOUT, En_Value);
Line12 ==
    /\ pc = "l12"
    /\ gpio' = WRITE_GPIO(gpio, GPIO_INOUT, En_Value)
    /\ bus' = Access("W", GPIO_INOUT, ToUnsigned(En_Value))
    /\ trace' = Log(trace, "W", GPIO_INOUT)
    /\ lastOp' = "W_INOUT"
    /\ pc' = Succ(pc)
    /\ UNCHANGED <<En_Value, switches_value, sraSignFill, lastRead>>

\* line 14: while (1)
Line14 ==
    /\ pc = "l14"
    /\ pc' = WhileTarget(LoopCond)
    /\ bus' = NoAccess
    /\ UNCHANGED <<gpio, En_Value, switches_value, sraSignFill, lastOp, lastRead, trace>>

\* line 15: switches_value = READ_GPIO(GPIO_SWs);
Line15 ==
    /\ pc = "l15"
    /\ switches_value' = ToInt(READ_GPIO(gpio, GPIO_SWs))
    /\ bus' = Access("R", GPIO_SWs, READ_GPIO(gpio, GPIO_SWs))
    /\ lastRead' = READ_GPIO(gpio, GPIO_SWs)
    /\ trace' = Log(trace, "R", GPIO_SWs)
    /\ lastOp' = "R_SWs"
    /\ pc' = Succ(pc)
    /\ UNCHANGED <<gpio, En_Value, sraSignFill>>

\* line 16: switches_value = switches_value >> 16;
Line16 ==
    /\ pc = "l16"
    /\ switches_value' = ShiftRight(switches_value, ShiftCount, sraSignFill)
    /\ bus' = NoAccess
    /\ pc' = Succ(pc)
    /\ UNCHANGED <<gpio, En_Value, sraSignFill, lastOp, lastRead, trace>>

\* a variant of line 17 that reads the Switch register again for the value
Line17Reread ==
    /\ pc = "l17"
    /\ gpio' = WRITE_GPIO(gpio, GPIO_LEDs,
                  ShiftRight(ToInt(READ_GPIO(gpio, GPIO_SWs)), ShiftCount, sraSignFill))
    /\ bus' = Access("W", GPIO_LEDs,
                  ToUnsigned(ShiftRight(ToInt(READ_GPIO(gpio, GPIO_SWs)), ShiftCount, sraSignFill)))
    /\ trace' = Log(trace, "W", GPIO_LEDs)
    /\ lastOp' = "W_LEDs"
    /\ pc' = Succ(pc)
    /\ UNCHANGED <<En_Value, switches_value, sraSignFill, lastRead>>

\* a variant of line 17 that stores to the Switch register
Line17ToSwitches ==
    /\ pc = "l17"
    /\ gpio' = WRITE_GPIO(gpio, GPIO_SWs, switches_value)
    /\ bus' = Access("W", GPIO_SWs, ToUnsigned(switches_value))
    /\ trace' = Log(trace, "W", GPIO_SWs)
    /\ lastOp' = "W_SWs"
    /\ pc' = Succ(pc)
    /\ UNCHANGED <<En_Value, switches_value, sraSignFill, lastRead>>

\* line 17: WRITE_GPIO(GPIO_LEDs, switches_value);
Line17 ==
    /\ pc = "l17"
    /\ gpio' = WRITE_GPIO(gpio, GPIO_LEDs, switches_value)
    /\ bus' = Access("W", GPIO_LEDs, ToUnsigned(switches_value))
    /\ trace' = Log(trace, "W", GPIO_LEDs)
    /\ lastOp' = "W_LEDs"
    /\ pc' = Succ(pc)
    /\ UNCHANGED <<En_Value, switches_value, sraSignFill, lastRead>>

\* the hardware: the physical switches change the switch register
SwitchChange ==
    /\ \E s \in SwValues \ {gpio[GPIO_SWs]} : gpio' = [gpio EXCEPT ![GPIO_SWs] = s]
    /\ UNCHANGED <<pc, En_Value, switches_value, sraSignFill, bus, lastOp, lastRead, trace>>

Program == Line12 \/ Line14 \/ Line15 \/ Line16 \/ Line17

Next ==
    \/ Line12 /\ UNCHANGED varsB
    \/ Line14 /\ UNCHANGED varsB
    \/ Line15 /\ UNCHANGED varsB
    \/ Line16 /\ UNCHANGED varsB
    \/ Line17 /\ UNCHANGED varsB
    \/ SwitchChange /\ UNCHANGED varsB

Spec == Init /\ [][Next]_vars

\* the processor keeps executing main: no statement waits forever
SpecLive == Spec /\ WF_vars(Program /\ UNCHANGED varsB)

----------------------------------------------------------------------------
(* A second run of the same build on the same board, for comparing two     *)
(* runs whose switch values differ only in bits 15..0.  The two runs       *)
(* execute statement by statement in lockstep.                             *)

InitNI ==
    /\ InitA
    /\ pcB = "l12"
    /\ En_ValueB = En_Value_Init
    /\ switches_valueB \in UninitInts
    /\ \E l \in LoVals :
          gpioB = [gpio EXCEPT ![GPIO_SWs] = Word(gpio[GPIO_SWs].hi, l)]
    /\ busB = NoAccess
    /\ lastReadB = Word(0, 0)

\* line 12 in the second run
Line12B ==
    /\ pcB = "l12"
    /\ gpioB' = WRITE_GPIO(gpioB, GPIO_INOUT, En_ValueB)
    /\ busB' = Access("W", GPIO_INOUT, ToUnsigned(En_ValueB))
    /\ pcB' = Succ(pcB)
    /\ UNCHANGED <<En_ValueB, switches_valueB, lastReadB>>

\* line 14 in the second run
Line14B ==
    /\ pcB = "l14"
    /\ pcB' = WhileTarget(LoopCond)
    /\ busB' = NoAccess
    /\ UNCHANGED <<gpioB, En_ValueB, switches_valueB, lastReadB>>

\* line 15 in the second run
Line15B ==
    /\ pcB = "l15"
    /\ switches_valueB' = ToInt(READ_GPIO(gpioB, GPIO_SWs))
    /\ busB' = Access("R", GPIO_SWs, READ_GPIO(gpioB, GPIO_SWs))
    /\ pcB' = Succ(pcB)
    /\ lastReadB' = READ_GPIO(gpioB, GPIO_SWs)
    /\ UNCHANGED <<gpioB, En_ValueB>>

\* line 16 in the second run
Line16B ==
    /\ pcB = "l16"
    /\ switches_valueB' = ShiftRight(switches_valueB, ShiftCount, sraSignFill)
    /\ busB' = NoAccess
    /\ pcB' = Succ(pcB)
    /\ UNCHANGED <<gpioB, En_ValueB, lastReadB>>

\* line 17 in the second run
Line17B ==
    /\ pcB = "l17"
    /\ gpioB' = WRITE_GPIO(gpioB, GPIO_LEDs, switches_valueB)
    /\ busB' = Access("W", GPIO_LEDs, ToUnsigned(switches_valueB))
    /\ pcB' = Succ(pcB)
    /\ UNCHANGED <<En_ValueB, switches_valueB, lastReadB>>

ProgramB == Line12B \/ Line14B \/ Line15B \/ Line16B \/ Line17B

\* the switches change in both runs: the same bits 31..16, any bits 15..0
SwitchChangeNI ==
    /\ \E h \in HiVals, l \in LoVals, lB \in LoVals :
          /\ Word(h, l) # gpio[GPIO_SWs] \/ Word(h, lB) # gpioB[GPIO_SWs]
          /\ gpio' = [gpio EXCEPT ![GPIO_SWs] = Word(h, l)]
          /\ gpioB' = [gpioB EXCEPT ![GPIO_SWs] = Word(h, lB)]
    /\ UNCHANGED <<pc, En_Value, switches_value, sraSignFill, bus, lastOp, lastRead, trace>>
    /\ UNCHANGED <<pcB, En_ValueB, switches_valueB, busB, lastReadB>>

NextNI ==
    \/ Line12 /\ ProgramB
    \/ Line14 /\ ProgramB
    \/ Line15 /\ ProgramB
    \/ Line16 /\ ProgramB
    \/ Line17 /\ ProgramB
    \/ SwitchChangeNI

SpecNI == InitNI /\ [][NextNI]_vars

----------------------------------------------------------------------------
(* Properties *)

IsLedWrite(b) == b.op = "W" /\ b.reg = GPIO_LEDs

\* a step of the program (every statement moves pc)
ProgramStep == pc' # pc

\* the word whose bits 15..0 are bits 31..16 of w and whose bits 31..16 are
\* all equal to fill (0 or 1)
HighHalfDown(w, fill) == Word(IF fill = 1 THEN Half - 1 ELSE 0, w.hi)

\* what line 16 makes of the word w under the build's shift of negative ints
Shifted(w) == HighHalfDown(w, IF sraSignFill /\ w.hi >= Half \div 2 THEN 1 ELSE 0)

\* C1: the value written to the LED register is the value read from the
\* switch register in the same iteration shifted right logically by 16 bits,
\* zero-extended: floor(V / 2^16), for every V including those with bit 31 set.
C1_LedIsLogicalShift == IsLedWrite(bus) => bus.val = HighHalfDown(lastRead, 0)

\* C2: the Direction register is written exactly once, before the first read
\* of the Switch register and before the first write of the LED register, and
\* no later step writes it again.
C2_TracePrefix ==
    /\ pc = "l12" => trace = << >> /\ lastOp = "none"
    /\ pc # "l12" => {k \in 1..Len(trace) : trace[k] = <<"W", GPIO_INOUT>>} = {1}

C2_DirectionWrittenOnce ==
    /\ []C2_TracePrefix
    /\ [][ProgramStep /\ bus'.reg = GPIO_INOUT => lastOp = "none"]_vars
    /\ [][lastOp # "none" => gpio'[GPIO_INOUT] = gpio[GPIO_INOUT]]_vars

C2_Witness == Len(trace) >= 5 /\ pc = "l14" /\ trace[1] = <<"W", GPIO_INOUT>>

\* C3: the loop never exits: control never reaches the return of line 20, and
\* once in the loop a statement of the loop is always enabled.
C3_LoopNeverExits ==
    /\ pc # "l20"
    /\ pc # "l12" => ENABLED (Line14 \/ Line15 \/ Line16 \/ Line17)

C3_Witness ==
    /\ Len(trace) >= 5
    /\ pc = "l14"
    /\ lastRead = Word(Half - 1, Half - 1)
    /\ gpio[GPIO_SWs] = Word(0, 0)

\* C4: every value written to the LED register has bits 31..16 equal to zero,
\* and reading 0xFFFF0000 results in writing 0x0000FFFF.
C4_LedUpperHalfZero ==
    IsLedWrite(bus) =>
        /\ bus.val.hi = 0
        /\ lastRead = Word(Half - 1, 0) => bus.val = Word(0, Half - 1)

\* C5 as stated: after the startup write every one of the 32 bits of the
\* Direction register is 1, in every later state.
C5_AllBitsSet == lastOp # "none" => gpio[GPIO_INOUT] = Word(Half - 1, Half - 1)

\* C5 amended: after the startup write the Direction register holds
\* 0x0000FFFF (bits 15..0 are 1, bits 31..16 are 0), in every later state.
C5_LowHalfSet == lastOp # "none" => gpio[GPIO_INOUT] = Word(0, Half - 1)

C5_Witness ==
    /\ Len(trace) >= 3
    /\ gpio[GPIO_INOUT] = Word(0, Half - 1)
    /\ gpio[GPIO_LEDs] # Word(0, 0)

\* C6: once the switches hold V at a read and still hold it at the end of
\* that iteration, the LED register holds the shifted V; and if the switches
\* stay at V forever the LED register eventually holds the shifted V forever.
C6_EndOfIteration ==
    lastOp = "W_LEDs" /\ lastRead = gpio[GPIO_SWs]
        => gpio[GPIO_LEDs] = Shifted(gpio[GPIO_SWs])

C6_PollingResponse ==
    /\ []C6_EndOfIteration
    /\ \A v \in SwValues :
          <>[](gpio[GPIO_SWs] = v) => <>[](gpio[GPIO_LEDs] = Shifted(v))

C6_Witness ==
    /\ Len(trace) >= 5
    /\ pc = "l14"
    /\ lastOp = "W_LEDs"
    /\ lastRead = gpio[GPIO_SWs]
    /\ gpio[GPIO_SWs] = Word(4660, 0)
    /\ gpio[GPIO_LEDs] = Word(0, 4660)

\* C7: in the loop Switch reads and LED writes strictly alternate, starting
\* with a read, and the value of each LED write is computed from the Switch
\* read just before it, also when the switches changed in between.
C7_TraceAlternates ==
    \A k \in 2..Len(trace) :
        trace[k] = IF k % 2 = 0 THEN <<"R", GPIO_SWs>> ELSE <<"W", GPIO_LEDs>>

C7_WriteFromLastRead == IsLedWrite(bus) => bus.val = Shifted(lastRead)

C7_ReadWriteAlternate ==
    /\ [](C7_TraceAlternates /\ C7_WriteFromLastRead)
    /\ [][ProgramStep /\ bus'.op = "R" => lastOp \in {"W_INOUT", "W_LEDs"}]_vars
    /\ [][ProgramStep /\ IsLedWrite(bus') => lastOp = "R_SWs"]_vars

C7_Witness ==
    /\ Len(trace) >= 5
    /\ IsLedWrite(bus)
    /\ pc = "l14"
    /\ lastRead # gpio[GPIO_SWs]
    /\ gpio[GPIO_LEDs] # Shifted(gpio[GPIO_SWs])

\* C8: a step of the program never changes the Switch register, reads no
\* register but the Switch register, writes no register but the LED and
\* Direction registers, and a step of the loop leaves the Direction register
\* unchanged.
C8_Frame ==
    [][ProgramStep =>
          /\ gpio'[GPIO_SWs] = gpio[GPIO_SWs]
          /\ bus'.op = "R" => bus'.reg = GPIO_SWs
          /\ bus'.op = "W" => bus'.reg \in {GPIO_LEDs, GPIO_INOUT}
          /\ bus'.op # "W" => gpio' = gpio
          /\ bus'.op = "W" => \A r \in DOMAIN gpio \ {bus'.reg} : gpio'[r] = gpio[r]
          /\ pc # "l12" => gpio'[GPIO_INOUT] = gpio[GPIO_INOUT]]_vars

C8_Witness ==
    /\ Len(trace) >= 5
    /\ IsLedWrite(bus)
    /\ gpio[GPIO_LEDs] # gpio[GPIO_SWs]
    /\ gpio[GPIO_SWs] = lastRead

\* C9: bits 15..0 of the value written to the LED register are bits 31..16
\* of the value read from the Switch register in the same iteration.
C9_LowHalfIsHighHalf == IsLedWrite(bus) => bus.val.lo = lastRead.hi

C9_Witness ==
    /\ IsLedWrite(bus)
    /\ lastRead = Word(32768, Half - 1)
    /\ bus.val.lo = 32768
    /\ bus.val.hi # 0

\* C10: two runs whose Switch values agree on bits 31..16 at every read make
\* the same Direction and LED writes, step for step.
WriteOf(b) == IF b.op = "W" THEN b ELSE NoAccess

C10_SameWrites == pcB = pc /\ WriteOf(busB) = WriteOf(bus)

C10_Witness ==
    /\ Len(trace) >= 5
    /\ IsLedWrite(bus)
    /\ IsLedWrite(busB)
    /\ lastRead.lo # 0
    /\ lastReadB # lastRead
    /\ lastRead.hi >= Half \div 2

====
